---- MODULE Spec2Model ----
(***************************************************************************)
(* metron/core/llm_clients/sagemaker_client.py                             *)
(*                                                                         *)
(* SageMakerClient.send_llm_request (the request driver) and LineIterator  *)
(* (the chunked line reader it drains).  One request is modelled from the  *)
(* environment check to the returned (metrics, generated_text) pair.  The  *)
(* transport (boto3 event stream), the JSON decoder and the tokenizer are  *)
(* outside the file: each is modelled by the outcomes it can hand back.    *)
(***************************************************************************)
EXTENDS Integers, Sequences, FiniteSets, TLC

\* ------------------------------------------------------------------ bounds
\* Total payload bytes the transport delivers in one response.
MaxBytes == 3
\* Events without a PayloadPart the transport delivers in one response.
MaxUnknown == 1
\* Largest value of the monotonic clock (it stays there once reached).
MaxClock == 2
\* Payload bytes each stream delivers when several readers run side by side.
MaxBytesEach == 2

\* --------------------------------------------------------------- constants
\* ord("\n"), the delimiter tested at line 123.
NL == 10
\* The generic server-error status assigned at line 91.
ServerError == 500

\* Byte values of the model: the delimiter and "]", which stands for any byte
\* other than the delimiter (what the payload spells is not interpreted).
Bytes == {NL, 93}

\* Python's None / a present value, for the optional fields.
None == <<>>
Some(v) == <<v>>

\* The required environment values in the order lines 24-29 test them.
EnvNames == <<"AWS_ACCESS_KEY_ID", "AWS_SECRET_ACCESS_KEY", "AWS_REGION_NAME">>
\* What os.environ can hold for a name: nothing, the empty string, a value.
EnvValues == {"absent", "empty", "set"}

\* str(e) of the exceptions the collaborators raise.
ClientErrors == {"InvalidRegionError"}
TransportErrors == {"EndpointConnectionError"}
StreamErrors == {"ModelStreamError"}
DecodeErrors == {"JSONDecodeError"}
LookupErrors == {"KeyError: generation"}
TokenizerErrors == {"TypeError"}

VARIABLES
    env,                \* os.environ restricted to EnvNames
    pc,                 \* position of send_llm_request / LineIterator.__next__
    now,                \* last value time.monotonic() returned
    sm_runtime,         \* TRUE once boto3.client(...) has been constructed
    calls,              \* invoke_endpoint_with_response_stream calls made
    received,           \* chunks the event stream has yielded so far (history)
    exhausted,          \* the event stream has signalled StopIteration
    it,                 \* the LineIterator: buffer, read_pos, ttft
    ret,                \* the triple __next__ returned last (None before)
    produced,           \* the lines __next__ has returned so far (history)
    json_byte,
    inter_token_times,
    most_recent_received_token_time,
    tokens_received,
    error_msg,
    error_response_code,
    generated_text,
    resp,               \* what json.loads returned (None before)
    exc,                \* str(e) of the exception raised inside the try, if any
    sampling_params,    \* request_config.sampling_params (one dict, changed in place)
    supplied,           \* the sampling parameters as the caller supplied them (history)
    message,            \* the wire payload built at lines 49-59 (None before)
    readers,            \* LineIterators of requests running side by side, each
                        \* with its stream's history, its lines and its position
    returned,           \* the (metrics, generated_text) pair handed to the caller
    raised              \* the exception that reached the caller

vars == <<env, pc, now, sm_runtime, calls, received, exhausted, it, ret,
          produced, json_byte, inter_token_times,
          most_recent_received_token_time, tokens_received, error_msg,
          error_response_code, generated_text, resp, exc, sampling_params,
          supplied, message, readers, returned, raised>>

\* ------------------------------------------------------------ pure helpers
\* time.monotonic(): never goes back; two reads may give the same value.
Monotonic(t) == {u \in t..MaxClock : u <= t + 1}

RECURSIVE LineEnd(_, _)
\* Index of the last byte BytesIO.readline() returns when it starts at byte
\* i (1-based): the first delimiter at or after i, else the end of the buffer.
LineEnd(buf, i) ==
    IF i > Len(buf) THEN Len(buf)
    ELSE IF buf[i] = NL THEN i
    ELSE LineEnd(buf, i + 1)

\* self.buffer.seek(pos); self.buffer.readline()
readline(buf, pos) == SubSeq(buf, pos + 1, LineEnd(buf, pos + 1))

\* A plausible slip: the line is returned with its delimiter.
KeepLast(line) == line

\* line[:-1]
StripLast(line) == SubSeq(line, 1, Len(line) - 1)

\* A plausible slip: a line that is only the delimiter is taken for no line.
EndsWithDelimiterNotEmpty(line) == Len(line) > 1 /\ line[Len(line)] = NL

\* Line 123: "line and line[-1] == ord('\n')"
EndsWithDelimiter(line) == line # <<>> /\ line[Len(line)] = NL

\* Line 129: "line and self.read_pos == self.buffer.getbuffer().nbytes - 1"
IsLastByte(i, line) == line # <<>> /\ i.read_pos = Len(i.buffer) - 1

\* A plausible slip: the test of line 135 is left out, StopIteration always
\* passes through.
BytesLeftIgnored(i) == FALSE

\* Line 135: self.read_pos < self.buffer.getbuffer().nbytes
BytesLeft(i) == i.read_pos < Len(i.buffer)

\* A plausible slip: line 84 is left out, every duration runs from dispatch.
RestartNever(prev, t) == prev

\* Line 84: most_recent_received_token_time = time.monotonic()
Restart(prev, t) == t

\* Lines 110-114
NewLineIterator == [buffer |-> <<>>, read_pos |-> 0, ttft |-> 0]

\* Line 126 (and 130): self.read_pos += n
Consume(i, n) == [i EXCEPT !.read_pos = i.read_pos + n]

\* A plausible slip: the test of line 124 is left out.
StampAlways(i, t) == [i EXCEPT !.ttft = t]

\* Lines 124-125: ttft is stamped with the clock's value t if it is still 0.
StampFirst(i, t) == [i EXCEPT !.ttft = IF i.ttft = 0 THEN t ELSE i.ttft]

\* A plausible slip: the seek to the end is left out and the chunk is written
\* from the start of the buffer, over what is there.
WriteChunkFromStart(i, chunk) ==
    LET b == chunk.PayloadPart.Bytes IN
    [i EXCEPT !.buffer = b \o SubSeq(i.buffer, Len(b) + 1, Len(i.buffer))]

\* Lines 141-142: seek to the end, write the chunk's bytes.
WriteChunk(i, chunk) == [i EXCEPT !.buffer = i.buffer \o chunk.PayloadPart.Bytes]

\* An event of the stream that carries no PayloadPart; its content ("?") is a
\* byte value no payload of the model holds.
UnknownEvent == [InternalStreamFailure |-> [Message |-> <<63>>]]

\* A plausible slip: the unrecognized event rewinds the cursor.
SkipUnknownRewinds(i, chunk) == [i EXCEPT !.read_pos = 0]

\* Lines 138-140: a chunk without a PayloadPart is logged; the iterator is
\* left as it was.
SkipUnknown(i, chunk) == i

\* Line 138: '"PayloadPart" not in chunk'
HasPayloadPart(chunk) == "PayloadPart" \in DOMAIN chunk

\* not os.environ.get(name)
Missing(name) == env[name] \in {"absent", "empty"}

\* A plausible slip: every test raises with the first name.
FirstMissingCopied == EnvNames[1]

\* The name whose test at lines 24-29 raises: the first missing one.
FirstMissing ==
    LET k == CHOOSE j \in 1..Len(EnvNames) :
                 /\ Missing(EnvNames[j])
                 /\ \A h \in 1..(j - 1) : ~Missing(EnvNames[h])
    IN  EnvNames[k]

\* The ValueError raised for a missing name: its name and its text.
ConfigError(name) == [type |-> "ValueError", name |-> name, text |-> "must be set."]

\* Payload bytes received so far, in order.
RECURSIVE PayloadOf(_)
PayloadOf(chunks) ==
    IF chunks = <<>> THEN <<>>
    ELSE (IF HasPayloadPart(Head(chunks)) THEN Head(chunks).PayloadPart.Bytes ELSE <<>>)
         \o PayloadOf(Tail(chunks))

UnknownCount(chunks) == Cardinality({j \in 1..Len(chunks) : ~HasPayloadPart(chunks[j])})

\* Byte strings of length n.
BytesOfLen(n) == [1..n -> Bytes]

RECURSIVE Drain(_, _, _)
\* The lines successive __next__ calls return (after those in out) from
\* iterator i over a stream that yields chunks, up to the point where it
\* asks the stream for a chunk beyond them (lines 119-142, clock left out).
Drain(i, chunks, out) ==
    LET line == readline(i.buffer, i.read_pos) IN
    IF EndsWithDelimiter(line)
        THEN Drain(Consume(i, Len(line)), chunks, Append(out, StripLast(line)))
    ELSE IF IsLastByte(i, line)
        THEN Drain(Consume(i, 1), chunks, Append(out, line))
    ELSE IF chunks = <<>>
        THEN out
    ELSE IF ~HasPayloadPart(Head(chunks))
        THEN Drain(SkipUnknown(i, Head(chunks)), Tail(chunks), out)
    ELSE Drain(WriteChunk(i, Head(chunks)), Tail(chunks), out)

\* The requests that run side by side, each with a LineIterator of its own.
ReaderIds == {"r1", "r2"}

\* Line 79 of one request: a LineIterator over that request's event stream.
NewReader ==
    [it |-> NewLineIterator, received |-> <<>>, exhausted |-> FALSE,
     produced |-> <<>>, pc |-> "readline"]

\* A plausible slip: buffer, read_pos and ttft kept on the class, so that a
\* write through one instance is seen by all.
PutShared(rs, r, i) == [q \in DOMAIN rs |-> [rs[q] EXCEPT !.it = i]]

\* Lines 111-114: byte_iterator, buffer, read_pos and ttft are attributes of
\* the instance (self.x); an assignment changes instance r alone.
Put(rs, r, i) == [rs EXCEPT ![r].it = i]

\* Names and values of the sampling parameters of the model.
ParamNames == {"max_tokens", "max_new_tokens", "temperature"}
ParamValues == {50, 100}

\* The sampling-parameter dicts a caller can supply: any names, any values.
ParamMaps == UNION {[d -> ParamValues] : d \in SUBSET ParamNames}

\* A plausible slip: the value is copied under the new key, the old key stays.
RenameWithoutDelete(p) ==
    IF "max_tokens" \in DOMAIN p
        THEN [k \in DOMAIN p \cup {"max_new_tokens"} |->
                 IF k = "max_new_tokens" THEN p["max_tokens"] ELSE p[k]]
        ELSE p

\* Lines 45-47: sampling_params["max_new_tokens"] = sampling_params["max_tokens"];
\* del sampling_params["max_tokens"]
RenameMaxTokens(p) ==
    IF "max_tokens" \in DOMAIN p
        THEN [k \in (DOMAIN p \ {"max_tokens"}) \cup {"max_new_tokens"} |->
                 IF k = "max_new_tokens" THEN p["max_tokens"] ELSE p[k]]
        ELSE p

\* Lines 49-59: the message, with the parameters block a copy of the dict.
WirePayload(p) ==
    [inputs |-> << <<[role |-> "system", content |-> ""],
                     [role |-> "user", content |-> "prompt"]>> >>,
     parameters |-> p]

\* The locals and the collaborators before line 24 runs.
InitLocals ==
    /\ pc = "check_env"
    /\ now = 1
    /\ sm_runtime = FALSE
    /\ calls = 0
    /\ received = <<>>
    /\ exhausted = FALSE
    /\ it = NewLineIterator
    /\ ret = None
    /\ produced = <<>>
    /\ json_byte = <<>>
    /\ inter_token_times = <<>>
    /\ most_recent_received_token_time = 0
    /\ tokens_received = 0
    /\ error_msg = None
    /\ error_response_code = None
    /\ generated_text = ""
    /\ resp = None
    /\ exc = None
    /\ message = None
    /\ readers = [r \in ReaderIds |-> NewReader]
    /\ returned = None
    /\ raised = None

\* Everything but the sampling parameters, as it is when the call starts.
InitRequestState ==
    /\ env \in [{EnvNames[j] : j \in 1..Len(EnvNames)} -> EnvValues]
    /\ InitLocals

\* ------------------------------------------------------------------- Init
\* One request, with the sampling parameters of the spec's example.
Init ==
    /\ InitRequestState
    /\ sampling_params = [max_tokens |-> 50]
    /\ supplied = sampling_params

\* One request, for every sampling-parameter dict of the model.
InitAnyParams ==
    /\ InitRequestState
    /\ sampling_params \in ParamMaps
    /\ supplied = sampling_params

DriverLocals == <<json_byte, inter_token_times, most_recent_received_token_time,
                  tokens_received, error_msg, error_response_code,
                  generated_text, resp>>
Transport == <<received, exhausted>>
Reader == <<it, ret, produced>>
Request == <<sampling_params, supplied, message>>

\* ------------------------------------------------- send_llm_request, entry
\* Lines 24-29, a value is missing: ValueError reaches the caller.
CheckEnvRaises ==
    /\ pc = "check_env"
    /\ \E j \in 1..Len(EnvNames) : Missing(EnvNames[j])
    /\ raised' = Some(ConfigError(FirstMissing))
    /\ pc' = "raised"
    /\ UNCHANGED <<env, readers, Request, now, sm_runtime, calls, Transport, Reader, DriverLocals, exc, returned>>

\* Lines 24-29, all three values present.
CheckEnvPasses ==
    /\ pc = "check_env"
    /\ \A j \in 1..Len(EnvNames) : ~Missing(EnvNames[j])
    /\ pc' = "create_client"
    /\ UNCHANGED <<env, readers, Request, now, sm_runtime, calls, Transport, Reader, DriverLocals, exc, returned, raised>>

\* Lines 31-67: the client is constructed, the locals are initialised and the
\* baseline of the first inter-token measurement is taken.
CreateClient ==
    /\ pc = "create_client"
    /\ sm_runtime' = TRUE
    /\ inter_token_times' = <<>>
    /\ tokens_received' = 0
    /\ error_msg' = None
    /\ error_response_code' = None
    /\ generated_text' = ""
    /\ \E t \in Monotonic(now) :
          /\ most_recent_received_token_time' = t
          /\ now' = t
    /\ sampling_params' = RenameMaxTokens(sampling_params)
    /\ message' = Some(WirePayload(sampling_params'))
    /\ pc' = "invoke"
    /\ UNCHANGED <<env, readers, supplied, calls, Transport, Reader, json_byte, resp, exc,
                   returned, raised>>

\* Lines 39-41 raise: outside the try, so the exception reaches the caller.
CreateClientRaises ==
    /\ pc = "create_client"
    /\ \E m \in ClientErrors :
          raised' = Some([type |-> "Exception", name |-> "", text |-> m])
    /\ pc' = "raised"
    /\ UNCHANGED <<env, readers, Request, now, sm_runtime, calls, Transport, Reader, DriverLocals, exc, returned>>

\* ------------------------------------------------ send_llm_request, the try
\* Lines 70-79: the request is sent, the stream opens and a LineIterator is
\* constructed over it.
InvokeEndpoint ==
    /\ pc = "invoke"
    /\ calls' = calls + 1
    /\ json_byte' = <<>>
    /\ it' = NewLineIterator
    /\ pc' = "readline"
    /\ UNCHANGED <<env, readers, Request, now, sm_runtime, Transport, ret, produced,
                   inter_token_times, most_recent_received_token_time,
                   tokens_received, error_msg, error_response_code,
                   generated_text, resp, exc, returned, raised>>

\* Lines 70-75 raise (the endpoint cannot be reached, the call is refused).
InvokeEndpointRaises ==
    /\ pc = "invoke"
    /\ calls' = calls + 1
    /\ \E m \in TransportErrors : exc' = Some(m)
    /\ pc' = "except"
    /\ UNCHANGED <<env, readers, Request, now, sm_runtime, Transport, Reader, DriverLocals,
                   returned, raised>>

\* ------------------------------------------------- LineIterator.__next__
\* Lines 121-127: the buffer holds a delimiter at or after read_pos.
ReturnLine ==
    /\ pc = "readline"
    /\ LET line == readline(it.buffer, it.read_pos) IN
          /\ EndsWithDelimiter(line)
          /\ \E t1 \in Monotonic(now) : \E t2 \in Monotonic(t1) :
                /\ it' = Consume(StampFirst(it, t1), Len(line))
                /\ ret' = Some([line |-> StripLast(line), ttft |-> it'.ttft,
                                timestamp |-> t2])
                /\ produced' = Append(produced, StripLast(line))
                /\ now' = t2
    /\ pc' = "body"
    /\ UNCHANGED <<env, readers, Request, sm_runtime, calls, Transport, DriverLocals, exc,
                   returned, raised>>

\* Lines 129-131: no delimiter, and exactly one byte is unconsumed.
ReturnLastByte ==
    /\ pc = "readline"
    /\ LET line == readline(it.buffer, it.read_pos) IN
          /\ ~EndsWithDelimiter(line)
          /\ IsLastByte(it, line)
          /\ \E t \in Monotonic(now) :
                /\ it' = Consume(it, 1)
                /\ ret' = Some([line |-> line, ttft |-> it'.ttft, timestamp |-> t])
                /\ produced' = Append(produced, line)
                /\ now' = t
    /\ pc' = "body"
    /\ UNCHANGED <<env, readers, Request, sm_runtime, calls, Transport, DriverLocals, exc,
                   returned, raised>>

\* Lines 121-132: neither return is taken; the loop goes on to pull a chunk.
NoLine ==
    /\ pc = "readline"
    /\ LET line == readline(it.buffer, it.read_pos) IN
          /\ ~EndsWithDelimiter(line)
          /\ ~IsLastByte(it, line)
    /\ pc' = "next_chunk"
    /\ UNCHANGED <<env, readers, Request, now, sm_runtime, calls, Transport, Reader, DriverLocals,
                   exc, returned, raised>>

\* Lines 133, 138, 141-142: the stream yields a chunk with a PayloadPart; its
\* bytes are written at the end of the buffer.
NextChunkPayload ==
    /\ pc = "next_chunk"
    /\ ~exhausted
    /\ \E n \in 1..(MaxBytes - Len(PayloadOf(received))) : \E b \in BytesOfLen(n) :
          LET chunk == [PayloadPart |-> [Bytes |-> b]] IN
          /\ received' = Append(received, chunk)
          /\ it' = WriteChunk(it, chunk)
    /\ pc' = "readline"
    /\ UNCHANGED <<env, readers, Request, now, sm_runtime, calls, exhausted, ret, produced,
                   DriverLocals, exc, returned, raised>>

\* Lines 133, 138-140: the stream yields a chunk without a PayloadPart.
NextChunkUnknown ==
    /\ pc = "next_chunk"
    /\ ~exhausted
    /\ UnknownCount(received) < MaxUnknown
    /\ LET chunk == UnknownEvent IN
          /\ ~HasPayloadPart(chunk)
          /\ received' = Append(received, chunk)
          /\ it' = SkipUnknown(it, chunk)
    /\ pc' = "readline"
    /\ UNCHANGED <<env, readers, Request, now, sm_runtime, calls, exhausted, ret, produced,
                   DriverLocals, exc, returned, raised>>

\* Lines 133-136: StopIteration with unconsumed bytes left: "continue".
StopIterationRetry ==
    /\ pc = "next_chunk"
    /\ exhausted' = TRUE
    /\ BytesLeft(it)
    /\ pc' = "readline"
    /\ UNCHANGED <<env, readers, Request, now, sm_runtime, calls, received, Reader, DriverLocals,
                   exc, returned, raised>>

\* Lines 133-137: StopIteration with nothing unconsumed: re-raised, which ends
\* the for loop at line 79.
StopIterationRaised ==
    /\ pc = "next_chunk"
    /\ exhausted' = TRUE
    /\ ~BytesLeft(it)
    /\ pc' = "loads"
    /\ UNCHANGED <<env, readers, Request, now, sm_runtime, calls, received, Reader, DriverLocals,
                   exc, returned, raised>>

\* Line 133: the stream raises something other than StopIteration; it leaves
\* __next__ and the for loop.
NextChunkRaises ==
    /\ pc = "next_chunk"
    /\ ~exhausted
    /\ \E m \in StreamErrors : exc' = Some(m)
    /\ pc' = "except"
    /\ UNCHANGED <<env, readers, Request, now, sm_runtime, calls, Transport, Reader, DriverLocals,
                   returned, raised>>

\* ------------------------------------------- send_llm_request, loop and after
\* Lines 80-84: the body of the for loop, for the triple just returned.
LoopBody ==
    /\ pc = "body"
    /\ json_byte' = json_byte \o ret[1].line
    /\ \E t1 \in Monotonic(now) : \E t2 \in Monotonic(t1) :
          /\ inter_token_times' =
                Append(inter_token_times, t1 - most_recent_received_token_time)
          /\ most_recent_received_token_time' =
                Restart(most_recent_received_token_time, t2)
          /\ now' = t2
    /\ pc' = "readline"
    /\ UNCHANGED <<env, readers, Request, sm_runtime, calls, Transport, Reader, tokens_received,
                   error_msg, error_response_code, generated_text, resp, exc,
                   returned, raised>>

\* Texts a response can carry at [0].generation.content.
Contents == {"", "Hello"}

\* Values json.loads can return: a list, empty or with a first element whose
\* generation.content is absent (None) or present.
Envelopes ==
    {<<>>, <<[generation |-> [content |-> None]]>>}
        \cup {<<[generation |-> [content |-> Some(c)]]>> : c \in Contents}

\* Line 85: json.loads(json_byte) returns.  An empty body is never valid JSON.
JsonLoads ==
    /\ pc = "loads"
    /\ json_byte # <<>>
    /\ \E r \in Envelopes : resp' = Some(r)
    /\ pc' = "extract"
    /\ UNCHANGED <<env, readers, Request, now, sm_runtime, calls, Transport, Reader, json_byte,
                   inter_token_times, most_recent_received_token_time,
                   tokens_received, error_msg, error_response_code,
                   generated_text, exc, returned, raised>>

\* Line 85: json.loads(json_byte) raises.
JsonLoadsRaises ==
    /\ pc = "loads"
    /\ \E m \in DecodeErrors : exc' = Some(m)
    /\ pc' = "except"
    /\ UNCHANGED <<env, readers, Request, now, sm_runtime, calls, Transport, Reader, DriverLocals,
                   returned, raised>>

\* resp[0]["generation"]["content"] is there.
HasContent(r) == r # <<>> /\ r[1].generation.content # None

\* Line 86: generated_text = resp[0]["generation"]["content"]
ExtractContent ==
    /\ pc = "extract"
    /\ HasContent(resp[1])
    /\ generated_text' = resp[1][1].generation.content[1]
    /\ pc' = "count"
    /\ UNCHANGED <<env, readers, Request, now, sm_runtime, calls, Transport, Reader, json_byte,
                   inter_token_times, most_recent_received_token_time,
                   tokens_received, error_msg, error_response_code, resp, exc,
                   returned, raised>>

\* A plausible slip: line 86 placed after the try, so its exception escapes.
ExtractContentEscapes ==
    /\ pc = "extract"
    /\ ~HasContent(resp[1])
    /\ \E m \in LookupErrors :
          raised' = Some([type |-> "Exception", name |-> "", text |-> m])
    /\ pc' = "raised"
    /\ UNCHANGED <<env, readers, Request, now, sm_runtime, calls, Transport, Reader, DriverLocals,
                   exc, returned>>

\* Line 86 raises: the list is empty or the element lacks the path.
ExtractContentRaises ==
    /\ pc = "extract"
    /\ ~HasContent(resp[1])
    /\ \E m \in LookupErrors : exc' = Some(m)
    /\ pc' = "except"
    /\ UNCHANGED <<env, readers, Request, now, sm_runtime, calls, Transport, Reader, DriverLocals,
                   returned, raised>>

\* BaseLLMClient.get_token_length(text): the tokenizer's count for the text.
get_token_length(text) == IF text = "" THEN 0 ELSE 1

\* Line 87: tokens_received = self.get_token_length(generated_text)
CountTokens ==
    /\ pc = "count"
    /\ tokens_received' = get_token_length(generated_text)
    /\ pc' = "metrics"
    /\ UNCHANGED <<env, readers, Request, now, sm_runtime, calls, Transport, Reader, json_byte,
                   inter_token_times, most_recent_received_token_time,
                   error_msg, error_response_code, generated_text, resp, exc,
                   returned, raised>>

\* Line 87 raises (the tokenizer rejects what it is given).
CountTokensRaises ==
    /\ pc = "count"
    /\ \E m \in TokenizerErrors : exc' = Some(m)
    /\ pc' = "except"
    /\ UNCHANGED <<env, readers, Request, now, sm_runtime, calls, Transport, Reader, DriverLocals,
                   returned, raised>>

\* A plausible change: the except block also drops the timings collected.
HandleExceptionDiscards ==
    /\ pc = "except"
    /\ error_msg' = Some(exc[1])
    /\ error_response_code' = Some(ServerError)
    /\ inter_token_times' = <<>>
    /\ pc' = "metrics"
    /\ UNCHANGED <<env, readers, Request, now, sm_runtime, calls, Transport, Reader, json_byte,
                   most_recent_received_token_time, tokens_received,
                   generated_text, resp, exc, returned, raised>>

\* A plausible slip: the status is never assigned.
HandleExceptionNoCode ==
    /\ pc = "except"
    /\ error_msg' = Some(exc[1])
    /\ pc' = "metrics"
    /\ UNCHANGED <<env, readers, Request, now, sm_runtime, calls, Transport,
                   Reader, json_byte, inter_token_times,
                   most_recent_received_token_time, tokens_received,
                   error_response_code, generated_text, resp, exc, returned,
                   raised>>

\* Lines 88-91: except Exception as e
HandleException ==
    /\ pc = "except"
    /\ error_msg' = Some(exc[1])
    /\ error_response_code' = Some(ServerError)
    /\ pc' = "metrics"
    /\ UNCHANGED <<env, readers, Request, now, sm_runtime, calls, Transport, Reader, json_byte,
                   inter_token_times, most_recent_received_token_time,
                   tokens_received, generated_text, resp, exc, returned,
                   raised>>

\* Lines 93-99: RequestMetrics(...)
RequestMetrics ==
    [inter_token_times |-> inter_token_times,
     num_output_tokens |-> tokens_received,
     error_code |-> error_response_code,
     error_msg |-> error_msg]

\* Lines 93-101: return metrics, generated_text
ReturnMetrics ==
    /\ pc = "metrics"
    /\ returned' = Some([metrics |-> RequestMetrics, generated_text |-> generated_text])
    /\ pc' = "done"
    /\ UNCHANGED <<env, readers, Request, now, sm_runtime, calls, Transport, Reader, DriverLocals,
                   exc, raised>>

Next ==
    \/ CheckEnvRaises
    \/ CheckEnvPasses
    \/ CreateClient
    \/ CreateClientRaises
    \/ InvokeEndpoint
    \/ InvokeEndpointRaises
    \/ ReturnLine
    \/ ReturnLastByte
    \/ NoLine
    \/ NextChunkPayload
    \/ NextChunkUnknown
    \/ StopIterationRetry
    \/ StopIterationRaised
    \/ NextChunkRaises
    \/ LoopBody
    \/ JsonLoads
    \/ JsonLoadsRaises
    \/ ExtractContent
    \/ ExtractContentRaises
    \/ CountTokens
    \/ CountTokensRaises
    \/ HandleException
    \/ ReturnMetrics

Spec == Init /\ [][Next]_vars

\* ------------------------------------------ several LineIterators at once
\* All of the request's own state: untouched while the side-by-side readers run.
OneRequest ==
    <<env, pc, sm_runtime, calls, received, exhausted, it, ret, produced,
      json_byte, inter_token_times, most_recent_received_token_time,
      tokens_received, error_msg, error_response_code, generated_text, resp,
      exc, sampling_params, supplied, message, returned, raised>>

\* Lines 121-127 in reader r: a delimiter-terminated line is returned; the
\* caller's for loop then calls __next__ again.
ReaderReturnsLine(r) ==
    LET me == readers[r]
        line == readline(me.it.buffer, me.it.read_pos) IN
    /\ me.pc = "readline"
    /\ EndsWithDelimiter(line)
    /\ \E t \in Monotonic(now) :
          /\ readers' = [Put(readers, r, Consume(StampFirst(me.it, t), Len(line)))
                            EXCEPT ![r].produced = Append(me.produced, StripLast(line))]
          /\ now' = t
    /\ UNCHANGED OneRequest

\* Lines 129-131 in reader r.
ReaderReturnsLastByte(r) ==
    LET me == readers[r]
        line == readline(me.it.buffer, me.it.read_pos) IN
    /\ me.pc = "readline"
    /\ ~EndsWithDelimiter(line)
    /\ IsLastByte(me.it, line)
    /\ readers' = [Put(readers, r, Consume(me.it, 1))
                      EXCEPT ![r].produced = Append(me.produced, line)]
    /\ UNCHANGED <<now, OneRequest>>

\* Lines 121-132 in reader r: no line; on to the stream.
ReaderNoLine(r) ==
    LET me == readers[r]
        line == readline(me.it.buffer, me.it.read_pos) IN
    /\ me.pc = "readline"
    /\ ~EndsWithDelimiter(line)
    /\ ~IsLastByte(me.it, line)
    /\ readers' = [readers EXCEPT ![r].pc = "next_chunk"]
    /\ UNCHANGED <<now, OneRequest>>

\* Lines 133, 138, 141-142 in reader r: its stream yields a payload chunk
\* (the streams of this specification yield payload chunks only).
ReaderChunkPayload(r) ==
    LET me == readers[r] IN
    /\ me.pc = "next_chunk"
    /\ ~me.exhausted
    /\ \E n \in 1..(MaxBytesEach - Len(PayloadOf(me.received))) :
       \E b \in BytesOfLen(n) :
          LET chunk == [PayloadPart |-> [Bytes |-> b]] IN
          readers' = [Put(readers, r, WriteChunk(me.it, chunk))
                         EXCEPT ![r].received = Append(me.received, chunk),
                                ![r].pc = "readline"]
    /\ UNCHANGED <<now, OneRequest>>

\* Lines 133-136 in reader r: StopIteration with bytes left, "continue".
ReaderStopRetry(r) ==
    LET me == readers[r] IN
    /\ me.pc = "next_chunk"
    /\ BytesLeft(me.it)
    /\ readers' = [readers EXCEPT ![r].exhausted = TRUE, ![r].pc = "readline"]
    /\ UNCHANGED <<now, OneRequest>>

\* Lines 133-137 in reader r: StopIteration re-raised; its for loop ends.
ReaderStopRaised(r) ==
    LET me == readers[r] IN
    /\ me.pc = "next_chunk"
    /\ ~BytesLeft(me.it)
    /\ readers' = [readers EXCEPT ![r].exhausted = TRUE, ![r].pc = "stopped"]
    /\ UNCHANGED <<now, OneRequest>>

NextReaders ==
    \E r \in ReaderIds :
        \/ ReaderReturnsLine(r)
        \/ ReaderReturnsLastByte(r)
        \/ ReaderNoLine(r)
        \/ ReaderChunkPayload(r)
        \/ ReaderStopRetry(r)
        \/ ReaderStopRaised(r)

\* The readers of requests whose streams are open, stepping in any order.
InitReaders ==
    /\ InitLocals
    /\ env = [n \in {EnvNames[j] : j \in 1..Len(EnvNames)} |-> "set"]
    /\ sampling_params = [max_tokens |-> 50]
    /\ supplied = sampling_params

SpecReaders == InitReaders /\ [][NextReaders]_vars

\* The request up to the point where it has been sent (lines 24-79).
NextRequest ==
    \/ CheckEnvRaises
    \/ CheckEnvPasses
    \/ CreateClient
    \/ CreateClientRaises
    \/ InvokeEndpoint
    \/ InvokeEndpointRaises

\* Building and sending the request, for every sampling-parameter dict.
SpecRequest == InitAnyParams /\ [][NextRequest]_vars

\* The interpreter keeps running the request until it returns or raises.
FairSpec == Spec /\ WF_vars(Next)

\* ================================================================ claims
\* The payload bytes the stream has delivered, concatenated.
Sent == PayloadOf(received)

\* Positions of the delimiters of s.
Delimiters(s) == {j \in 1..Len(s) : s[j] = NL}
FirstDelimiter(s) == CHOOSE j \in Delimiters(s) : \A h \in Delimiters(s) : j <= h

RECURSIVE Segments(_)
\* The delimiter-terminated segments of s, in order, delimiters stripped.
Segments(s) ==
    IF Delimiters(s) = {} THEN <<>>
    ELSE <<SubSeq(s, 1, FirstDelimiter(s) - 1)>>
         \o Segments(SubSeq(s, FirstDelimiter(s) + 1, Len(s)))

RECURSIVE TailOf(_)
\* What follows the last delimiter of s.
TailOf(s) ==
    IF Delimiters(s) = {} THEN s
    ELSE TailOf(SubSeq(s, FirstDelimiter(s) + 1, Len(s)))

RECURSIVE Join(_)
\* The lines, each followed by a delimiter.
Join(ls) == IF ls = <<>> THEN <<>> ELSE Head(ls) \o <<NL>> \o Join(Tail(ls))

\* The payload chunks among chunks, in order.
PayloadChunks(chunks) == SelectSeq(chunks, HasPayloadPart)

\* __next__ has signalled end-of-stream to the for loop and nothing ran since.
EndOfStream == pc = "loads"

\* Control is inside LineIterator.__next__.
InNext == pc \in {"readline", "next_chunk"}

\* C1: when the payload is k delimiter-terminated segments followed by one
\* tail byte, the drained iterator has produced exactly the k segments in
\* order and then the tail byte, whatever the chunking.
C1_SegmentsThenTailByte ==
    (EndOfStream /\ Len(TailOf(Sent)) = 1)
        => produced = Segments(Sent) \o <<TailOf(Sent)>>

\* C2: a delimiter-terminated line is yielded once and whole however it was
\* split over chunks: the j-th line produced is the j-th delimiter-terminated
\* segment of the payload, never a fragment of it.
C2_NoFragments ==
    \A j \in 1..Len(produced) :
        j <= Len(Segments(Sent)) => produced[j] = Segments(Sent)[j]

\* C3: every call of __next__ terminates: control that is inside __next__
\* eventually leaves it (with a triple, StopIteration or an exception).
C3_NextTerminates == InNext ~> ~InNext

\* C4: every triple __next__ returns, the first one included, carries a set
\* (non-zero) ttft, whichever path produced the line.
C4_TtftSetOnEveryLine == ret # None => ret[1].ttft # 0

\* The step appends a chunk without a PayloadPart to the stream's history.
UnknownArrives ==
    /\ Len(received') = Len(received) + 1
    /\ ~HasPayloadPart(received'[Len(received')])

\* Some produced line holds the byte value of an unrecognized event.
UnknownContentProduced ==
    \E j \in 1..Len(produced) : \E h \in 1..Len(produced[j]) :
        produced[j][h] = UnknownEvent.InternalStreamFailure.Message[1]

\* C5: a chunk without a PayloadPart leaves buffer, read cursor and ttft as
\* they were, none of its content reaches a produced line, and whenever the
\* iterator asks for the next chunk it has produced exactly the lines it
\* produces over the same stream with those chunks removed.
C5_UnknownSkipped ==
    /\ [](~UnknownContentProduced)
    /\ [](pc = "next_chunk"
            => produced = Drain(NewLineIterator, PayloadChunks(received), <<>>))
    /\ [][UnknownArrives => (it' = it /\ ret' = ret /\ produced' = produced)]_vars

\* An unrecognized chunk arrived between two payload chunks and the stream
\* was drained, with lines produced.
C5_Witness ==
    /\ EndOfStream
    /\ produced # <<>>
    /\ \E j \in 2..(Len(received) - 1) :
          /\ ~HasPayloadPart(received[j])
          /\ HasPayloadPart(received[j - 1])
          /\ HasPayloadPart(received[j + 1])

\* The produced lines with the delimiters put back: after every line, except
\* after the last one when the payload ends with an undelimited tail byte.
Rebuilt ==
    IF Sent # <<>> /\ Sent[Len(Sent)] # NL /\ produced # <<>>
        THEN Join(SubSeq(produced, 1, Len(produced) - 1)) \o produced[Len(produced)]
        ELSE Join(produced)

\* C6: round trip: for a payload that ends with a delimiter or with a single
\* undelimited tail byte, the lines of the drained iterator with the
\* delimiters put back are the payload, whatever the chunking.
C6_RoundTrip ==
    (EndOfStream /\ (TailOf(Sent) = <<>> \/ Len(TailOf(Sent)) = 1))
        => Rebuilt = Sent

\* C7: once the request has been sent nothing reaches the caller as an
\* exception.  An exception raised inside the try (opening the stream,
\* reading chunks, decoding, extracting generation.content) takes control to
\* the except block, and the record returned carries status 500 and the
\* exception's message; so does the record for a decoded response whose
\* first element lacks generation.content.
C7_FailuresCaught ==
    /\ calls > 0 => raised = None
    /\ exc # None =>
          /\ pc \in {"except", "metrics", "done"}
          /\ pc \in {"metrics", "done"} =>
                (error_response_code = Some(500) /\ error_msg = exc)
          /\ pc = "done" =>
                /\ returned # None
                /\ returned[1].metrics.error_code = Some(500)
                /\ returned[1].metrics.error_msg = exc
    /\ (resp # None /\ ~HasContent(resp[1]) /\ pc \in {"metrics", "done"}) =>
          /\ error_response_code = Some(500)
          /\ error_msg \in {Some(m) : m \in LookupErrors}

\* The response decoded, its first element lacks generation.content, and the
\* caller has its record.
C7_Witness ==
    /\ pc = "done"
    /\ returned # None
    /\ resp # None
    /\ ~HasContent(resp[1])
    /\ exc \in {Some(m) : m \in LookupErrors}

\* C8: a returned record with an error goes with an empty generated text.
C8_ErrorExcludesText ==
    (returned # None /\ returned[1].metrics.error_msg # None)
        => returned[1].generated_text = ""

\* The stream raised while being read, after at least one line was produced,
\* and the caller has its record.
MidStreamFailure ==
    /\ returned # None
    /\ exc \in {Some(m) : m \in StreamErrors}
    /\ produced # <<>>

\* C9 as stated: after a mid-stream failure the record has a non-empty error
\* message, an empty generated text and an empty inter-token sequence.
C9_TimingsDiscarded ==
    MidStreamFailure =>
        /\ returned[1].metrics.error_msg # None
        /\ returned[1].metrics.error_msg # Some("")
        /\ returned[1].generated_text = ""
        /\ returned[1].metrics.inter_token_times = <<>>

\* C9 amended: after a mid-stream failure the record has a non-empty error
\* message and an empty generated text, and it reports the inter-token
\* durations collected before the failure: one per line produced.
C9_TimingsKept ==
    MidStreamFailure =>
        /\ returned[1].metrics.error_msg # None
        /\ returned[1].metrics.error_msg # Some("")
        /\ returned[1].generated_text = ""
        /\ Len(returned[1].metrics.inter_token_times) = Len(produced)
        /\ returned[1].metrics.inter_token_times # <<>>

\* The stream raised after two lines were produced; the record is returned.
C9_Witness == MidStreamFailure /\ Len(produced) >= 2

\* Some required environment value is missing (unset, or set to nothing).
SomeMissing == \E j \in 1..Len(EnvNames) : Missing(EnvNames[j])

\* C10: with a required value missing the request ends in a ValueError that
\* names a missing value, the client is never constructed and no network
\* call is made; the client and the call exist only after the check passed.
C10_ConfigCheckedFirst ==
    /\ SomeMissing =>
          /\ pc \in {"check_env", "raised"}
          /\ ~sm_runtime
          /\ calls = 0
          /\ returned = None
          /\ pc = "raised" =>
                /\ raised # None
                /\ raised[1].type = "ValueError"
                /\ Missing(raised[1].name)
    /\ (sm_runtime \/ calls > 0) => ~SomeMissing

\* AWS_REGION_NAME alone is absent and the ValueError naming it was raised.
C10_Witness ==
    /\ env["AWS_ACCESS_KEY_ID"] = "set"
    /\ env["AWS_SECRET_ACCESS_KEY"] = "set"
    /\ env["AWS_REGION_NAME"] = "absent"
    /\ raised = Some(ConfigError("AWS_REGION_NAME"))
    /\ calls = 0

\* The parameters block of the payload handed to the endpoint.
Transmitted == message[1].parameters

\* C11 as stated: the transmitted parameters never hold max_tokens; a supplied
\* max_tokens = v is sent as max_new_tokens = v; every other supplied
\* parameter is sent unchanged under its own key.
C11_RenamedOthersUnchanged ==
    calls > 0 =>
        /\ "max_tokens" \notin DOMAIN Transmitted
        /\ "max_tokens" \in DOMAIN supplied =>
              /\ "max_new_tokens" \in DOMAIN Transmitted
              /\ Transmitted["max_new_tokens"] = supplied["max_tokens"]
        /\ \A k \in DOMAIN supplied \ {"max_tokens"} :
              k \in DOMAIN Transmitted /\ Transmitted[k] = supplied[k]

\* C11 amended: as stated, except that a supplied max_new_tokens is replaced
\* by the value of max_tokens when both are supplied; nothing else is sent.
C11_RenamedOverwrites ==
    calls > 0 =>
        /\ "max_tokens" \notin DOMAIN Transmitted
        /\ "max_tokens" \in DOMAIN supplied =>
              /\ "max_new_tokens" \in DOMAIN Transmitted
              /\ Transmitted["max_new_tokens"] = supplied["max_tokens"]
        /\ \A k \in DOMAIN supplied \ {"max_tokens"} :
              (k = "max_new_tokens" /\ "max_tokens" \in DOMAIN supplied)
                  \/ (k \in DOMAIN Transmitted /\ Transmitted[k] = supplied[k])
        /\ DOMAIN Transmitted \subseteq
              (DOMAIN supplied \ {"max_tokens"}) \cup {"max_new_tokens"}

\* max_tokens = 50 was supplied with another parameter and the request was
\* sent with max_new_tokens = 50.
C11_Witness ==
    /\ calls > 0
    /\ DOMAIN supplied = {"max_tokens", "temperature"}
    /\ supplied["max_tokens"] = 50
    /\ Transmitted["max_new_tokens"] = 50

\* Reader r took no step: its position, its stream and its lines are the same.
Idle(r) ==
    /\ readers'[r].pc = readers[r].pc
    /\ readers'[r].received = readers[r].received
    /\ readers'[r].exhausted = readers[r].exhausted
    /\ readers'[r].produced = readers[r].produced

\* C12: readers running side by side over their own streams, their steps
\* interleaved in any order: a step of one leaves the buffer, cursor and ttft
\* of every other as they were, and whenever a reader asks for its next chunk
\* it has produced exactly the lines it produces over its chunks run alone.
C12_ReadersIndependent ==
    /\ [](\A r \in ReaderIds :
            readers[r].pc \in {"next_chunk", "stopped"} =>
                readers[r].produced
                    = Drain(NewLineIterator, readers[r].received, <<>>))
    /\ [][\A r \in ReaderIds : Idle(r) => readers'[r].it = readers[r].it]_vars

\* Both readers are in the middle of their streams at once: each has
\* received chunks and produced lines, neither stream has ended, and what
\* they produced differs.
C12_Witness ==
    /\ \A r \in ReaderIds :
          /\ ~readers[r].exhausted
          /\ readers[r].received # <<>>
          /\ readers[r].produced # <<>>
    /\ readers["r1"].produced # readers["r2"].produced
    /\ readers["r1"].it.ttft # readers["r2"].it.ttft

\* C13: the cursor stays within the buffer; over every step the cursor does
\* not go back, the buffer does not shrink, and the bytes already in the
\* buffer stay what they were (chunks are appended at the end only).
C13_CursorWithinGrowingBuffer ==
    /\ [](0 <= it.read_pos /\ it.read_pos <= Len(it.buffer))
    /\ [][/\ it'.read_pos >= it.read_pos
          /\ Len(it'.buffer) >= Len(it.buffer)
          /\ SubSeq(it'.buffer, 1, Len(it.buffer)) = it.buffer]_vars

\* A second payload chunk has been appended behind an advanced cursor.
C13_Witness ==
    /\ Len(PayloadChunks(received)) >= 2
    /\ it.read_pos > 0
    /\ it.read_pos < Len(it.buffer)
    /\ it.buffer = Sent

\* C14: end-of-stream is signalled only with the stream exhausted and the
\* cursor at the end of the buffer, the buffer holding every payload byte
\* delivered: no payload byte is left unconsumed.
C14_EndOfStreamOnlyWhenConsumed ==
    EndOfStream =>
        /\ exhausted
        /\ it.read_pos = Len(it.buffer)
        /\ it.buffer = Sent

\* End-of-stream after a payload of several bytes in several lines.
C14_Witness == EndOfStream /\ Len(Sent) >= 2 /\ Len(produced) >= 2

\* __next__ is about to scan and the byte at the cursor is a delimiter.
AtDelimiter ==
    /\ pc = "readline"
    /\ it.read_pos < Len(it.buffer)
    /\ it.buffer[it.read_pos + 1] = NL

\* C15: with a delimiter at the cursor __next__ returns a zero-length line,
\* moves the cursor by exactly one and raises nothing.
C15_EmptyLine ==
    [][AtDelimiter =>
          /\ pc' = "body"
          /\ ret' # None
          /\ ret'[1].line = <<>>
          /\ produced' = Append(produced, <<>>)
          /\ it'.read_pos = it.read_pos + 1
          /\ exc' = exc
          /\ raised' = raised]_vars

\* The stream began with two delimiters and both gave an empty line.
C15_Witness ==
    /\ Len(Sent) >= 2
    /\ Sent[1] = NL
    /\ Sent[2] = NL
    /\ Len(produced) >= 2
    /\ produced[1] = <<>>
    /\ produced[2] = <<>>

RECURSIVE Flatten(_)
\* The lines one after the other, nothing between them.
Flatten(ls) == IF ls = <<>> THEN <<>> ELSE Head(ls) \o Flatten(Tail(ls))

\* The step appends one duration to the inter-token sequence.
DurationAdded == Len(inter_token_times') = Len(inter_token_times) + 1

\* C16: while the stream is drained, and when it has been drained, there is
\* one duration per line produced and the body is the produced lines
\* concatenated in order; the baseline is the clock at dispatch; each
\* duration is appended behind the earlier ones, runs from the baseline of
\* the moment (dispatch, or the handling of the previous line) to the clock
\* as the line is handled, and resets the baseline to the clock.
C16_OneDurationPerLine ==
    /\ [](pc \in {"readline", "next_chunk", "loads"} =>
            /\ Len(inter_token_times) = Len(produced)
            /\ json_byte = Flatten(produced))
    /\ [](pc = "invoke" => most_recent_received_token_time = now)
    /\ [][DurationAdded =>
            LET d == inter_token_times'[Len(inter_token_times')] IN
            /\ SubSeq(inter_token_times', 1, Len(inter_token_times))
                  = inter_token_times
            /\ now - most_recent_received_token_time <= d
            /\ d <= now' - most_recent_received_token_time
            /\ most_recent_received_token_time' = now']_vars
    /\ [][(pc \in {"readline", "next_chunk"} /\ ~DurationAdded) =>
            /\ inter_token_times' = inter_token_times
            /\ most_recent_received_token_time'
                  = most_recent_received_token_time]_vars

\* A drained stream of two lines or more, with time passing before the
\* second one.
C16_Witness ==
    /\ EndOfStream
    /\ Len(produced) >= 2
    /\ inter_token_times[1] = 0
    /\ inter_token_times[2] > 0

\* The bytes of s that are not delimiters, in order.
WithoutDelimiters(s) == SelectSeq(s, LAMBDA b : b # NL)

\* C17: at end-of-stream the produced lines, concatenated with nothing put
\* back, are the payload with its delimiters removed, whatever the chunking;
\* no produced line holds a delimiter; the body the driver decodes is that
\* same byte string.
C17_LinesAreThePayloadWithoutDelimiters ==
    EndOfStream =>
        /\ Flatten(produced) = WithoutDelimiters(Sent)
        /\ \A j \in 1..Len(produced) : Delimiters(produced[j]) = {}
        /\ json_byte = WithoutDelimiters(Sent)

\* End-of-stream for a payload with a delimiter that came in several chunks.
C17_Witness ==
    /\ EndOfStream
    /\ Len(PayloadChunks(received)) >= 2
    /\ Delimiters(Sent) # {}
    /\ WithoutDelimiters(Sent) # <<>>

\* C18: a non-zero ttft never changes; every triple carries the iterator's
\* ttft, so after the first non-zero one all carry the same; a non-zero ttft
\* of a triple is at most the triple's timestamp; timestamps do not go back
\* from one triple to the next.
C18_TtftFixedOnceSet ==
    /\ [][it.ttft # 0 => it'.ttft = it.ttft]_vars
    /\ [](ret # None =>
            /\ ret[1].ttft = it.ttft
            /\ ret[1].ttft # 0 => ret[1].ttft <= ret[1].timestamp)
    /\ [][(ret # None /\ ret' # None) =>
            /\ ret'[1].timestamp >= ret[1].timestamp
            /\ ret[1].ttft # 0 => ret'[1].ttft = ret[1].ttft]_vars

\* A later line, returned after the clock moved, still carries the first ttft.
C18_Witness ==
    /\ Len(produced) >= 2
    /\ ret # None
    /\ ret[1].ttft # 0
    /\ ret[1].ttft < ret[1].timestamp

\* C19: in a returned record the error code and message are both unset or
\* both set, the code being 500; when set the output token count is 0; when
\* unset the text is the decoded [0].generation.content and the output token
\* count is the tokenizer's count for it.
C19_ErrorFieldsPaired ==
    returned # None =>
        LET m == returned[1].metrics
            text == returned[1].generated_text IN
        /\ (m.error_code = None) <=> (m.error_msg = None)
        /\ m.error_code # None =>
              (m.error_code = Some(ServerError) /\ m.num_output_tokens = 0)
        /\ m.error_code = None =>
              /\ resp # None
              /\ HasContent(resp[1])
              /\ text = resp[1][1].generation.content[1]
              /\ m.num_output_tokens = get_token_length(text)

\* A record without error, with the decoded text and its count.
C19_Witness ==
    /\ returned # None
    /\ returned[1].metrics.error_code = None
    /\ returned[1].generated_text = "Hello"
    /\ returned[1].metrics.num_output_tokens = 1

====
